---- MODULE Spec2Model ----
(***************************************************************************)
(* Twister Blitz: the round state machine of GameInterface.tsx and the     *)
(* recognition session controller, deduplicator and phrase matcher of      *)
(* VoiceInput.tsx, as a state machine over React's batched state updates.  *)
(*                                                                         *)
(* React model.  A setState call made by a handler appends an entry to     *)
(* `queue` (GameInterface) or `vqueue` (the playing VoiceInput).  Render   *)
(* applies every queued updater in call order and commits; the passive     *)
(* effects (useEffect) of a commit run in a later step, RunEffects, and    *)
(* always before the next render.  Handlers read the last committed state  *)
(* and the refs.  Strings are sequences of one-character strings.          *)
(***************************************************************************)
EXTENDS Integers, Sequences, FiniteSets, TLC

\* ------------------------------------------------------------------------
\* Program constants
\* ------------------------------------------------------------------------
TARGET_SCORE == 5
GAME_DURATION == 60
TimerInterval == 100
BucketMs == 2000

\* ------------------------------------------------------------------------
\* Bounds of the exploration
\* ------------------------------------------------------------------------
MaxNow == 60000
MaxQueue == 3
MaxFetches == 2
MaxLog == 6
MaxVoiceLog == 2
MaxVQueue == 2
MaxTimers == 1
MaxResultsNow == 4000
MaxTextLen == 3

\* ------------------------------------------------------------------------
\* Text
\* ------------------------------------------------------------------------
UpperCase == <<"A", "B", "C", "D", "E", "F", "G", "H", "I", "J", "K", "L", "M",
               "N", "O", "P", "Q", "R", "S", "T", "U", "V", "W", "X", "Y", "Z">>
LowerCase == <<"a", "b", "c", "d", "e", "f", "g", "h", "i", "j", "k", "l", "m",
               "n", "o", "p", "q", "r", "s", "t", "u", "v", "w", "x", "y", "z">>
Digits == {"0", "1", "2", "3", "4", "5", "6", "7", "8", "9"}
WhiteSpace == {" ", "\t", "\n"}

SeqRange(s) == {s[i] : i \in 1..Len(s)}

SetMin(S) == CHOOSE x \in S : \A y \in S : x <= y
SetMax(S) == CHOOSE x \in S : \A y \in S : x >= y
Max0(a, b) == IF a >= b THEN a ELSE b

\* String.prototype.toLowerCase on the characters the model uses
toLowerCase(str) ==
  [i \in 1..Len(str) |->
     IF \E k \in 1..26 : UpperCase[k] = str[i]
     THEN LowerCase[CHOOSE k \in 1..26 : UpperCase[k] = str[i]]
     ELSE str[i]]

\* the characters the regular expression /[^a-z0-9 ]/g leaves in place
IsKept(c) == c \in SeqRange(LowerCase) \cup Digits \cup {" "}

\* String.prototype.trimStart
trimStart(str) ==
  LET idx == {i \in 1..Len(str) : str[i] \notin WhiteSpace}
  IN IF idx = {} THEN <<>> ELSE SubSeq(str, SetMin(idx), Len(str))

\* String.prototype.trim
trim(str) ==
  LET idx == {i \in 1..Len(str) : str[i] \notin WhiteSpace}
  IN IF idx = {} THEN <<>> ELSE SubSeq(str, SetMin(idx), SetMax(idx))

\* str.toLowerCase().replace(/[^a-z0-9 ]/g, '').trim()
normalize(str) == trim(SelectSeq(toLowerCase(str), IsKept))

\* String.prototype.includes
includes(s, t) == \E i \in 0..(Len(s) - Len(t)) : SubSeq(s, i + 1, i + Len(t)) = t

\* str.split(/\s+/).filter(w => w.length > 0)
RECURSIVE splitWords(_)
splitWords(s) ==
  IF s = <<>> THEN <<>>
  ELSE IF Head(s) \in WhiteSpace THEN splitWords(Tail(s))
  ELSE LET ws == {i \in 1..Len(s) : s[i] \in WhiteSpace}
           n == IF ws = {} THEN Len(s) + 1 ELSE SetMin(ws)
       IN <<SubSeq(s, 1, n - 1)>> \o splitWords(SubSeq(s, n, Len(s)))

\* the word-overlap tier: target words that contain or are contained in
\* some input word
matchingWords(inputWords, targetWords) ==
  SelectSeq(targetWords,
            LAMBDA tWord : \E k \in 1..Len(inputWords) :
                 includes(inputWords[k], tWord) \/ includes(tWord, inputWords[k]))

\* checkMatch on the statement as it was heard, not normalized
checkMatchUnnormalized(statement, target) ==
  IF target = <<>> \/ trim(statement) = <<>> THEN FALSE
  ELSE LET normalizedInput == statement
           inputWords == splitWords(normalizedInput)
           targetWords == splitWords(target)
       IN IF includes(normalizedInput, target) THEN TRUE
          ELSE IF includes(target, normalizedInput)
                  /\ 10 * Len(normalizedInput) >= 6 * Len(target) THEN TRUE
          ELSE IF Len(inputWords) > 0 /\ Len(targetWords) > 0
               THEN 10 * Len(matchingWords(inputWords, targetWords))
                       >= 6 * Len(targetWords)
               ELSE FALSE

\* checkMatch without its first test
checkMatchUnguarded(statement, target) ==
  LET normalizedInput == normalize(statement)
      inputWords == splitWords(normalizedInput)
      targetWords == splitWords(target)
  IN IF includes(normalizedInput, target) THEN TRUE
     ELSE IF includes(target, normalizedInput)
             /\ 10 * Len(normalizedInput) >= 6 * Len(target) THEN TRUE
     ELSE IF Len(inputWords) > 0 /\ Len(targetWords) > 0
          THEN 10 * Len(matchingWords(inputWords, targetWords))
                  >= 6 * Len(targetWords)
          ELSE FALSE

\* checkMatch with the reverse containment tier taken at any length
checkMatchAnyLength(statement, target) ==
  IF target = <<>> \/ trim(statement) = <<>> THEN FALSE
  ELSE LET normalizedInput == normalize(statement)
           inputWords == splitWords(normalizedInput)
           targetWords == splitWords(target)
       IN IF includes(normalizedInput, target) THEN TRUE
          ELSE IF includes(target, normalizedInput) THEN TRUE
          ELSE IF Len(inputWords) > 0 /\ Len(targetWords) > 0
               THEN 10 * Len(matchingWords(inputWords, targetWords))
                       >= 6 * Len(targetWords)
               ELSE FALSE

\* checkMatch(statement) against normalizedTargetRef.current; the 0.6
\* thresholds are compared exactly (x >= y * 0.6 as 10 x >= 6 y, which is
\* what the double arithmetic gives for every length below 400)
checkMatch(statement, target) ==
  IF target = <<>> \/ trim(statement) = <<>> THEN FALSE
  ELSE LET normalizedInput == normalize(statement)
           inputWords == splitWords(normalizedInput)
           targetWords == splitWords(target)
       IN IF includes(normalizedInput, target) THEN TRUE
          ELSE IF includes(target, normalizedInput)
                  /\ 10 * Len(normalizedInput) >= 6 * Len(target) THEN TRUE
          ELSE IF Len(inputWords) > 0 /\ Len(targetWords) > 0
               THEN 10 * Len(matchingWords(inputWords, targetWords))
                       >= 6 * Len(targetWords)
               ELSE FALSE

\* ------------------------------------------------------------------------
\* Phrases and utterances of the exploration
\* ------------------------------------------------------------------------
Null == [null |-> TRUE]

FallbackText == <<"S", "i", "x", " ", "s", "l", "i", "p", "p", "e", "r", "y", " ",
                  "s", "n", "a", "i", "l", "s", " ", "s", "l", "i", "d", " ",
                  "s", "l", "o", "w", "l", "y", " ", "s", "e", "a", "w", "a",
                  "r", "d", ".">>

\* the fallback object of generateTwister
FallbackTwister == [text |-> FallbackText, difficulty |-> "Medium", theme |-> "Nature"]

Difficulties == {"Easy", "Hard"}
\* useState<Difficulty | null>(null)
NoDifficulty == "null"

\* a phrase as the generation service returns it for a difficulty
ServiceTwister(d) == [text |-> <<"A", " ", "b", ".">>, difficulty |-> d, theme |-> "Space"]

\* the fallback object of the route handler that answers an upstream
\* failure with the requested difficulty
RouteFallback(d) == [text |-> FallbackText, difficulty |-> d, theme |-> "Nature"]

\* the outcomes of POST /api/generate-twister that are no failure, or a
\* failure the client sees: a status that is not OK, a rejected fetch
RoundResponses(d) ==
  {[ok |-> TRUE, body |-> ServiceTwister(d)], [ok |-> FALSE, body |-> Null]}

\* the outcomes of an upstream failure caught inside the route handler:
\* status 200 with the handler's fallback object
RouteFailures(d) ==
  {[ok |-> TRUE, body |-> FallbackTwister], [ok |-> TRUE, body |-> RouteFallback(d)]}

\* status 200 with a JSON object that lacks a field of TwisterChallenge: the
\* route handler that forwards the parsed upstream content as it is
MalformedResponses(d) ==
  {[ok |-> TRUE, body |-> [difficulty |-> d, theme |-> "Space"]],
   [ok |-> TRUE, body |-> [text |-> ServiceTwister(d).text, difficulty |-> d]]}

\* HTTP outcomes of POST /api/generate-twister
Responses(d) == RoundResponses(d) \cup RouteFailures(d) \cup MalformedResponses(d)

\* generateTwister: the body of an OK response, the fallback otherwise
generateTwister(response) == IF response.ok THEN response.body ELSE FallbackTwister

\* a result event: the fragments from resultIndex on, each with its first
\* alternative's transcript and its isFinal flag
Fragment(t, f) == [transcript |-> t, isFinal |-> f]

\* ------------------------------------------------------------------------
\* State
\* ------------------------------------------------------------------------
VARIABLES
  \* GameInterface
  gameState,            \* useState: status, score, timeLeft, currentTwister
  spokenStatements,     \* useState: the statement log
  isLoadingTwister,     \* useState
  selectedDifficulty,   \* useState, NoDifficulty until one is chosen
  queue,                \* setState calls of GameInterface not yet rendered
  effectDeps,           \* status and score as of the last effects run
  timerRef,             \* Null, or the interval with its startTime/startValue
  confettiFiredRef,     \* useRef: the win action's "already fired" flag
  fetches,              \* generateTwister calls in flight: the difficulties asked
  now,                  \* Date.now(), milliseconds
  confettiCount,        \* fireConfetti calls since the round's start was rendered
  targetReached,        \* a match applied while Playing raised the round's score
                        \* to TARGET_SCORE or above
  \* the VoiceInput rendered while status is 'playing'
  isListening,          \* the isListening prop of the playing VoiceInput
  isMountedRef,
  recognitionRef,       \* TRUE when recognitionRef.current holds the engine object
  startAttemptRef,
  isRecording,          \* useState
  error,                \* useState, Null or the message's kind
  transcript,           \* useState
  vqueue,               \* setState calls of VoiceInput not yet rendered
  veffectDeps,          \* isRecording as of the last effects run
  normalizedTargetRef,
  processedStatementsRef,
  lastProcessedTimeRef,
  restartTimers,        \* pending 100 ms timers of recognition.onend
  tryAgainTimers,       \* pending 100 ms timers of the Try Again button
  engine,               \* the SpeechRecognition object: idle, starting, active,
                        \* ending (after an error), stopping (after stop or abort)
  lastCall,             \* the recognition.start() call of the last step, if any
  stoppedByCaller,      \* the handle's stop() took effect and start() was not asked since
  \* the functions on text, applied on their own
  evaluation            \* the function applied, its arguments and, once done, its value

gameVars == <<gameState, spokenStatements, isLoadingTwister, selectedDifficulty,
              queue, effectDeps, timerRef, confettiFiredRef, fetches, confettiCount,
              targetReached>>
voiceVars == <<isListening, isMountedRef, recognitionRef, startAttemptRef, isRecording, error,
               transcript, vqueue, veffectDeps, normalizedTargetRef,
               processedStatementsRef, lastProcessedTimeRef, restartTimers,
               tryAgainTimers, engine, lastCall, stoppedByCaller>>
\* the VoiceInput variables but lastCall
voiceState == <<isListening, isMountedRef, recognitionRef, startAttemptRef, isRecording, error,
                transcript, vqueue, veffectDeps, normalizedTargetRef,
                processedStatementsRef, lastProcessedTimeRef, restartTimers,
                tryAgainTimers, engine, stoppedByCaller>>
vars == <<gameVars, voiceVars, now, evaluation>>

\* no function is being applied on its own
NoEvaluation == [fn |-> "none"]

NoCall == [path |-> "none"]
NoError == "null"

\* ------------------------------------------------------------------------
\* GameInterface: the updater functions passed to setGameState
\* ------------------------------------------------------------------------
\* a timer that ends the round without writing the time it computed
TickUpdaterKeepsTime(prev, newTimeLeft) ==
  IF prev.status # "playing" THEN prev
  ELSE IF newTimeLeft = 0 THEN [prev EXCEPT !.status = "failed"]
  ELSE IF prev.timeLeft # newTimeLeft THEN [prev EXCEPT !.timeLeft = newTimeLeft]
  ELSE prev

\* an updater that takes one second off per tick
TickUpdaterCountsDown(prev, newTimeLeft) ==
  IF prev.status # "playing" THEN prev
  ELSE IF prev.timeLeft - 1 <= 0 THEN [prev EXCEPT !.status = "failed", !.timeLeft = 0]
  ELSE [prev EXCEPT !.timeLeft = prev.timeLeft - 1]

\* the interval callback's updater
TickUpdater(prev, newTimeLeft) ==
  IF prev.status # "playing" THEN prev
  ELSE IF newTimeLeft = 0 THEN [prev EXCEPT !.status = "failed", !.timeLeft = 0]
  ELSE IF prev.timeLeft # newTimeLeft THEN [prev EXCEPT !.timeLeft = newTimeLeft]
  ELSE prev

\* the win-condition effect's updater
WinUpdater(prev) == [prev EXCEPT !.status = "success"]

StartGameUpdater(prev) ==
  [prev EXCEPT !.status = "playing", !.score = 0, !.timeLeft = GAME_DURATION]

HandleMatchUpdaterWhilePlaying(prev) ==
  IF prev.status = "playing" THEN [prev EXCEPT !.score = @ + 1] ELSE prev

HandleMatchUpdater(prev) == [prev EXCEPT !.score = prev.score + 1]

\* the updater of retrySame without the score reset
RetrySameUpdaterKeepsScore(prev) ==
  [prev EXCEPT !.status = "idle", !.timeLeft = GAME_DURATION]

RetrySameUpdater(prev) ==
  [prev EXCEPT !.status = "idle", !.score = 0, !.timeLeft = GAME_DURATION]

FetchUpdaterKeepsStatus(prev, twister) ==
  [prev EXCEPT !.currentTwister = twister, !.score = 0, !.timeLeft = GAME_DURATION]

FetchUpdater(prev, twister) ==
  [prev EXCEPT !.currentTwister = twister, !.score = 0,
               !.timeLeft = GAME_DURATION, !.status = "idle"]

\* one queued entry stands for the setState calls one handler made
ApplyGame(prev, u) ==
  CASE u.op = "tick" -> TickUpdater(prev, u.newTimeLeft)
    [] u.op = "win" -> WinUpdater(prev)
    [] u.op = "startGame" -> StartGameUpdater(prev)
    [] u.op = "handleMatch" -> HandleMatchUpdater(prev)
    [] u.op = "retrySame" -> RetrySameUpdater(prev)
    [] u.op = "fetchDone" -> FetchUpdater(prev, u.twister)
    [] OTHER -> prev

ApplyStatements(prev, u) ==
  CASE u.op \in {"startGame", "retrySame", "fetchDone"} -> <<>>
    [] u.op = "handleStatementSpoken" -> Append(prev, u.statement)
    [] OTHER -> prev

ApplyLoading(prev, u) ==
  CASE u.op \in {"fetchStart", "handleDifficultySelect"} -> TRUE
    [] u.op = "fetchDone" -> FALSE
    [] OTHER -> prev

ApplyDifficulty(prev, u) ==
  IF u.op = "handleDifficultySelect" THEN u.difficulty ELSE prev

\* one queued update applied to the state of the named useState hook
Apply(hook, prev, u) ==
  CASE hook = "gameState" -> ApplyGame(prev, u)
    [] hook = "spokenStatements" -> ApplyStatements(prev, u)
    [] hook = "isLoadingTwister" -> ApplyLoading(prev, u)
    [] hook = "selectedDifficulty" -> ApplyDifficulty(prev, u)

RECURSIVE Fold(_, _, _)
Fold(hook, prev, q) ==
  IF q = <<>> THEN prev ELSE Fold(hook, Apply(hook, prev, Head(q)), Tail(q))

\* some handleMatch updater of q finds status Playing and raises score to
\* TARGET_SCORE or above
RECURSIVE ReachesTarget(_, _)
ReachesTarget(prev, q) ==
  /\ q # <<>>
  /\ \/ /\ Head(q).op = "handleMatch"
        /\ prev.status = "playing"
        /\ prev.score + 1 >= TARGET_SCORE
     \/ ReachesTarget(ApplyGame(prev, Head(q)), Tail(q))

ClickOps == {"handleDifficultySelect", "startGame", "retrySame", "fetchStart"}

\* a click's updates are flushed before the browser dispatches the next click
NoPendingClick == \A i \in 1..Len(queue) : queue[i].op \notin ClickOps

\* React renders between two firings of the 100 ms interval
NoPendingTick == \A i \in 1..Len(queue) : queue[i].op # "tick"

EffectsPending ==
  effectDeps # [status |-> gameState.status, score |-> gameState.score]

\* the start/stop effect of VoiceInput has still to run for the last commit
VEffectsPending == isMountedRef /\ veffectDeps # isRecording

\* ------------------------------------------------------------------------
\* The SpeechRecognition object
\* ------------------------------------------------------------------------
\* start() throws InvalidStateError unless the object is idle
StartThrows == engine # "idle"
EngineAfterStart == IF engine = "idle" THEN "starting" ELSE engine
\* stop() and abort() end a started session (end follows) and do nothing on
\* an idle object
EngineAfterStop == IF engine \in {"starting", "active"} THEN "stopping" ELSE engine

\* the record of a recognition.start() call: who called, and the controller
\* and engine state the call was made in
StartCall(path) ==
  [path |-> path, isRecording |-> isRecording, startAttempt |-> startAttemptRef,
   engine |-> engine]

\* ------------------------------------------------------------------------
\* VoiceInput: mount and unmount
\* ------------------------------------------------------------------------
\* targetPhrase={gameState.currentTwister?.text || ""}
targetPhrase(gs) ==
  IF gs.currentTwister = Null \/ "text" \notin DOMAIN gs.currentTwister THEN <<>>
  ELSE gs.currentTwister.text

\* the effects of the first commit of a VoiceInput with isListening = true,
\* in declaration order: target phrase effect, recognition initialisation,
\* start/stop effect, mount effect.  The instance is new: its state, refs,
\* timers and engine object are fresh.
VoiceMount(gs) ==
  /\ normalizedTargetRef' = normalize(targetPhrase(gs))
  /\ processedStatementsRef' = {}
  /\ lastProcessedTimeRef' = 0
  /\ recognitionRef' = TRUE
  /\ startAttemptRef' = TRUE
  /\ engine' = "starting"
  /\ lastCall' = [path |-> "effect", isRecording |-> FALSE, startAttempt |-> FALSE,
                  engine |-> "idle"]
  /\ isListening' = TRUE
  /\ isMountedRef' = TRUE
  /\ isRecording' = FALSE
  /\ error' = NoError
  /\ transcript' = <<>>
  /\ vqueue' = <<>>
  /\ veffectDeps' = FALSE
  /\ restartTimers' = 0
  /\ tryAgainTimers' = 0
  /\ stoppedByCaller' = FALSE

\* an unmount that stops the engine and leaves both refs as they were
VoiceUnmountStopOnly ==
  /\ engine' = IF recognitionRef THEN EngineAfterStop ELSE engine
  /\ lastCall' = NoCall
  /\ UNCHANGED <<isListening, isMountedRef, recognitionRef, startAttemptRef, isRecording, error,
                 transcript, vqueue, veffectDeps, normalizedTargetRef,
                 processedStatementsRef, lastProcessedTimeRef, restartTimers,
                 tryAgainTimers, stoppedByCaller>>

\* the cleanups of the recognition effect and of the mount effect
VoiceUnmount ==
  /\ engine' = IF recognitionRef THEN EngineAfterStop ELSE engine
  /\ recognitionRef' = FALSE
  /\ isMountedRef' = FALSE
  /\ lastCall' = NoCall
  /\ UNCHANGED <<isListening, startAttemptRef, isRecording, error, transcript, vqueue,
                 veffectDeps, normalizedTargetRef, processedStatementsRef,
                 lastProcessedTimeRef, restartTimers, tryAgainTimers, stoppedByCaller>>

\* ------------------------------------------------------------------------
\* GameInterface: handlers
\* ------------------------------------------------------------------------
Enqueue(u) == queue' = Append(queue, u)

VoiceIdle == lastCall' = NoCall /\ UNCHANGED voiceState /\ UNCHANGED evaluation

\* fetchNewTwister up to its await
FetchStart(u, d) ==
  /\ Len(fetches) < MaxFetches
  /\ Len(queue) < MaxQueue
  /\ fetches' = Append(fetches, d)
  /\ Enqueue(u)

\* DifficultySelector's onSelect, shown while no difficulty is selected
HandleDifficultySelect(d) ==
  /\ selectedDifficulty = NoDifficulty
  /\ NoPendingClick
  /\ FetchStart([op |-> "handleDifficultySelect", difficulty |-> d], d)
  /\ VoiceIdle
  /\ UNCHANGED <<gameState, spokenStatements, isLoadingTwister, selectedDifficulty,
                 effectDeps, timerRef, confettiFiredRef, confettiCount, targetReached,
                 now>>

\* the START GAME button: shown while status is idle, disabled while loading.
\* The permissions query it awaits is taken to settle within the click.
StartGame ==
  /\ selectedDifficulty # NoDifficulty
  /\ gameState.status = "idle"
  /\ ~isLoadingTwister
  /\ NoPendingClick
  /\ Len(queue) < MaxQueue
  /\ Enqueue([op |-> "startGame"])
  /\ VoiceIdle
  /\ UNCHANGED <<gameState, spokenStatements, isLoadingTwister, selectedDifficulty,
                 effectDeps, timerRef, confettiFiredRef, fetches, confettiCount,
                 targetReached, now>>

\* the Retry Same button, shown while status is success or failed
RetrySame ==
  /\ selectedDifficulty # NoDifficulty
  /\ gameState.status \in {"success", "failed"}
  /\ NoPendingClick
  /\ Len(queue) < MaxQueue
  /\ Enqueue([op |-> "retrySame"])
  /\ VoiceIdle
  /\ UNCHANGED <<gameState, spokenStatements, isLoadingTwister, selectedDifficulty,
                 effectDeps, timerRef, confettiFiredRef, fetches, confettiCount,
                 targetReached, now>>

\* the Next Level button (resetGame), shown while status is success or failed
ResetGame ==
  /\ selectedDifficulty # NoDifficulty
  /\ gameState.status \in {"success", "failed"}
  /\ NoPendingClick
  /\ FetchStart([op |-> "fetchStart"], selectedDifficulty)
  /\ VoiceIdle
  /\ UNCHANGED <<gameState, spokenStatements, isLoadingTwister, selectedDifficulty,
                 effectDeps, timerRef, confettiFiredRef, confettiCount, targetReached,
                 now>>

\* fetchNewTwister after its await: generateTwister has settled
FetchComplete(i, response) ==
  /\ i \in 1..Len(fetches)
  /\ response \in Responses(fetches[i])
  /\ fetches' = SubSeq(fetches, 1, i - 1) \o SubSeq(fetches, i + 1, Len(fetches))
  /\ Enqueue([op |-> "fetchDone", twister |-> generateTwister(response)])
  /\ VoiceIdle
  /\ UNCHANGED <<gameState, spokenStatements, isLoadingTwister, selectedDifficulty,
                 effectDeps, timerRef, confettiFiredRef, confettiCount, targetReached,
                 now>>

\* the setInterval callback of the timer effect
Tick ==
  /\ timerRef # Null
  /\ now >= timerRef.startTime + TimerInterval
  /\ NoPendingTick
  /\ Len(queue) < MaxQueue
  /\ LET elapsed == (now - timerRef.startTime) \div 1000
         newTimeLeft == Max0(0, timerRef.startValue - elapsed)
     IN Enqueue([op |-> "tick", newTimeLeft |-> newTimeLeft])
  /\ VoiceIdle
  /\ UNCHANGED <<gameState, spokenStatements, isLoadingTwister, selectedDifficulty,
                 effectDeps, timerRef, confettiFiredRef, fetches, confettiCount,
                 targetReached, now>>

\* React renders GameInterface: every queued updater, in call order
Render ==
  /\ queue # <<>>
  /\ ~EffectsPending
  /\ ~VEffectsPending
  /\ gameState' = Fold("gameState", gameState, queue)
  /\ spokenStatements' = Fold("spokenStatements", spokenStatements, queue)
  /\ isLoadingTwister' = Fold("isLoadingTwister", isLoadingTwister, queue)
  /\ selectedDifficulty' = Fold("selectedDifficulty", selectedDifficulty, queue)
  /\ queue' = <<>>
  /\ confettiCount' = IF gameState.status # "playing" /\ gameState'.status = "playing"
                      THEN 0 ELSE confettiCount
  /\ targetReached' = IF gameState.status # "playing" /\ gameState'.status = "playing"
                      THEN FALSE ELSE targetReached \/ ReachesTarget(gameState, queue)
  /\ VoiceIdle
  /\ UNCHANGED <<effectDeps, timerRef, confettiFiredRef, fetches, now>>

\* the passive effects of the last commit: cleanups first (the unmounted
\* VoiceInput's, the timer effect's), then the new VoiceInput's mount
\* effects, the timer effect, the win-condition effect and the flag reset
RunEffects ==
  LET statusChanged == effectDeps.status # gameState.status
      playing == gameState.status = "playing"
      winFires == gameState.score >= TARGET_SCORE /\ playing /\ ~confettiFiredRef
  IN
  /\ EffectsPending
  /\ effectDeps' = [status |-> gameState.status, score |-> gameState.score]
  /\ IF statusChanged /\ effectDeps.status = "playing" THEN VoiceUnmount
     ELSE IF statusChanged /\ playing THEN VoiceMount(gameState)
     ELSE VoiceIdle
  /\ timerRef' = IF ~statusChanged THEN timerRef
                 ELSE IF playing
                      THEN [startTime |-> now, startValue |-> gameState.timeLeft]
                      ELSE Null
  /\ queue' = IF winFires THEN Append(queue, [op |-> "win"]) ELSE queue
  /\ confettiCount' = IF winFires THEN confettiCount + 1 ELSE confettiCount
  /\ confettiFiredRef' = IF statusChanged /\ gameState.status # "success" THEN FALSE
                         ELSE IF winFires THEN TRUE ELSE confettiFiredRef
  /\ UNCHANGED <<gameState, spokenStatements, isLoadingTwister, selectedDifficulty,
                 fetches, now, targetReached>>
  /\ UNCHANGED evaluation

\* every state update is rendered and every passive effect has run
Flushed ==
  /\ queue = <<>>
  /\ ~EffectsPending
  /\ isMountedRef => vqueue = <<>> /\ ~VEffectsPending

\* wall-clock time passes, by steps far longer than React takes to render
AdvanceClock(d, max) ==
  /\ Flushed
  /\ now + d <= max
  /\ now' = now + d
  /\ VoiceIdle
  /\ UNCHANGED gameVars

\* ------------------------------------------------------------------------
\* VoiceInput: handlers of the instance rendered with isListening = true
\* ------------------------------------------------------------------------
\* isListening as the closures of the recognition effect hold it: the value
\* of the commit that mounted the instance
isListeningAtInit == TRUE

VEnqueue(u) == vqueue' = Append(vqueue, u)
SetRecording(b) == [op |-> "setIsRecording", value |-> b]
SetError(e) == [op |-> "setError", value |-> e]

ApplyRecording(prev, u) == IF u.op = "setIsRecording" THEN u.value ELSE prev
ApplyError(prev, u) == IF u.op = "setError" THEN u.value ELSE prev

\* one queued update applied to the state of the named useState hook
VApply(hook, prev, u) ==
  CASE hook = "isRecording" -> ApplyRecording(prev, u)
    [] hook = "error" -> ApplyError(prev, u)

RECURSIVE VFold(_, _, _)
VFold(hook, prev, q) ==
  IF q = <<>> THEN prev ELSE VFold(hook, VApply(hook, prev, Head(q)), Tail(q))

\* a key whose time window is twice as long
StatementKeyLongWindow(transcriptText, currentTime) ==
  <<normalize(transcriptText), currentTime \div (2 * BucketMs)>>

\* the key of the processed-statements set: `${normalizedText}_${timeWindow}`
StatementKey(transcriptText, currentTime) ==
  <<normalize(transcriptText), currentTime \div BucketMs>>

\* the loop of handleResult telling the parent of matching statements only
RECURSIVE ProcessResultsMatchedOnly(_, _, _, _)
ProcessResultsMatchedOnly(results, target, currentTime, acc) ==
  IF results = <<>> THEN acc
  ELSE
    LET result == Head(results)
        transcriptText == trim(result.transcript)
        statementKey == StatementKey(transcriptText, currentTime)
        isMatch == checkMatch(transcriptText, target)
        spoken == [op |-> "handleStatementSpoken",
                   statement |-> [text |-> transcriptText, timestamp |-> currentTime,
                                  isMatch |-> isMatch]]
        next ==
          IF ~result.isFinal THEN [acc EXCEPT !.interim = @ \o transcriptText]
          ELSE IF transcriptText = <<>> \/ statementKey \in acc.processed
               THEN [acc EXCEPT !.latestFinal = transcriptText]
          ELSE [acc EXCEPT !.latestFinal = transcriptText,
                           !.processed = @ \cup {statementKey},
                           !.lastProcessed = currentTime,
                           !.calls = @ \o (IF isMatch
                                           THEN <<spoken, [op |-> "handleMatch"]>>
                                           ELSE <<>>)]
    IN ProcessResultsMatchedOnly(Tail(results), target, currentTime, next)

\* the loop of handleResult taking every fragment for a final one
RECURSIVE ProcessResultsAllFinal(_, _, _, _)
ProcessResultsAllFinal(results, target, currentTime, acc) ==
  IF results = <<>> THEN acc
  ELSE
    LET result == Head(results)
        transcriptText == trim(result.transcript)
        statementKey == StatementKey(transcriptText, currentTime)
        isMatch == checkMatch(transcriptText, target)
        spoken == [op |-> "handleStatementSpoken",
                   statement |-> [text |-> transcriptText, timestamp |-> currentTime,
                                  isMatch |-> isMatch]]
        next ==
          IF transcriptText = <<>> \/ statementKey \in acc.processed
          THEN [acc EXCEPT !.latestFinal = transcriptText]
          ELSE [acc EXCEPT !.latestFinal = transcriptText,
                           !.processed = @ \cup {statementKey},
                           !.lastProcessed = currentTime,
                           !.calls = @ \o <<spoken>>
                                       \o (IF isMatch THEN <<[op |-> "handleMatch"]>>
                                           ELSE <<>>)]
    IN ProcessResultsAllFinal(Tail(results), target, currentTime, next)

\* the loop of handleResult over event.results from event.resultIndex on
RECURSIVE ProcessResults(_, _, _, _)
ProcessResults(results, target, currentTime, acc) ==
  IF results = <<>> THEN acc
  ELSE
    LET result == Head(results)
        transcriptText == trim(result.transcript)
        statementKey == StatementKey(transcriptText, currentTime)
        isMatch == checkMatch(transcriptText, target)
        spoken == [op |-> "handleStatementSpoken",
                   statement |-> [text |-> transcriptText, timestamp |-> currentTime,
                                  isMatch |-> isMatch]]
        next ==
          IF ~result.isFinal THEN [acc EXCEPT !.interim = @ \o transcriptText]
          ELSE IF transcriptText = <<>> \/ statementKey \in acc.processed
               THEN [acc EXCEPT !.latestFinal = transcriptText]
          ELSE [acc EXCEPT !.latestFinal = transcriptText,
                           !.processed = @ \cup {statementKey},
                           !.lastProcessed = currentTime,
                           !.calls = @ \o <<spoken>>
                                       \o (IF isMatch THEN <<[op |-> "handleMatch"]>>
                                           ELSE <<>>)]
    IN ProcessResults(Tail(results), target, currentTime, next)

\* the calls of onStatementSpoken among the calls a result event makes
NewStatements(calls) ==
  Cardinality({i \in 1..Len(calls) : calls[i].op = "handleStatementSpoken"})

\* statements logged or about to be
LoggedStatements ==
  Len(spokenStatements)
  + Cardinality({i \in 1..Len(queue) : queue[i].op = "handleStatementSpoken"})

\* recognition.onresult = handleResult
HandleResult(batch, maxLog) ==
  IF ~isMountedRef
  THEN UNCHANGED <<queue, processedStatementsRef, lastProcessedTimeRef, transcript>>
  ELSE
    LET acc == ProcessResults(batch, normalizedTargetRef, now,
                       [processed |-> processedStatementsRef,
                        lastProcessed |-> lastProcessedTimeRef,
                        calls |-> <<>>, latestFinal |-> <<>>, interim |-> <<>>])
        displayText == IF acc.latestFinal # <<>> THEN acc.latestFinal ELSE acc.interim
    IN /\ Len(queue) + Len(acc.calls) <= MaxQueue + 1
       /\ LoggedStatements + NewStatements(acc.calls) <= maxLog
       /\ processedStatementsRef' = acc.processed
       /\ lastProcessedTimeRef' = acc.lastProcessed
       /\ queue' = queue \o acc.calls
       \* display only, read by no handler: shown at once
       /\ transcript' = IF displayText # <<>> THEN displayText ELSE transcript

\* the engine delivers a result event: while it recognizes, and for what it
\* heard until stop() or abort() was called
EngineResult(batch, maxLog) ==
  /\ engine \in {"active", "stopping"}
  /\ HandleResult(batch, maxLog)
  /\ lastCall' = NoCall
  /\ UNCHANGED <<isListening, isMountedRef, recognitionRef, startAttemptRef, isRecording, error,
                 vqueue, veffectDeps, normalizedTargetRef, restartTimers,
                 tryAgainTimers, engine, stoppedByCaller>>
  /\ UNCHANGED <<gameState, spokenStatements, isLoadingTwister, selectedDifficulty,
                 effectDeps, timerRef, confettiFiredRef, fetches, confettiCount,
                 targetReached, now>>
  /\ UNCHANGED evaluation

gameRest == <<gameVars, now, evaluation>>

\* room for n more setState calls of VoiceInput before React renders
VRoom(n) == isMountedRef => Len(vqueue) + n <= MaxVQueue

\* the engine fires start: recognition.onstart
OnStart ==
  /\ engine = "starting"
  /\ VRoom(2)
  /\ engine' = "active"
  /\ IF isMountedRef
     THEN /\ vqueue' = vqueue \o <<SetRecording(TRUE), SetError(NoError)>>
          /\ startAttemptRef' = FALSE
     ELSE UNCHANGED <<vqueue, startAttemptRef>>
  /\ lastCall' = NoCall
  /\ UNCHANGED <<isListening, isMountedRef, recognitionRef, isRecording, error, transcript,
                 veffectDeps, normalizedTargetRef, processedStatementsRef,
                 lastProcessedTimeRef, restartTimers, tryAgainTimers, stoppedByCaller>>
  /\ UNCHANGED gameRest

\* the engine fires end, by itself or after stop, abort or an error:
\* recognition.onend
OnEnd ==
  /\ engine \in {"active", "ending", "stopping"}
  /\ VRoom(1)
  /\ isMountedRef /\ isListeningAtInit /\ startAttemptRef => restartTimers < MaxTimers
  /\ engine' = "idle"
  /\ IF isMountedRef
     THEN /\ VEnqueue(SetRecording(FALSE))
          /\ restartTimers' = IF isListeningAtInit /\ startAttemptRef
                              THEN restartTimers + 1 ELSE restartTimers
     ELSE UNCHANGED <<vqueue, restartTimers>>
  /\ lastCall' = NoCall
  /\ UNCHANGED <<isListening, isMountedRef, recognitionRef, startAttemptRef, isRecording, error,
                 transcript, veffectDeps, normalizedTargetRef, processedStatementsRef,
                 lastProcessedTimeRef, tryAgainTimers, stoppedByCaller>>
  /\ UNCHANGED gameRest

ErrorCodes == {"not-allowed", "no-speech", "audio-capture", "network", "aborted",
               "service-not-allowed"}

\* the switch of recognition.onerror with the network case left silent
ErrorMessageNetworkSilent(code) ==
  CASE code = "not-allowed" -> "Microphone permission denied"
    [] code = "audio-capture" -> "No microphone found"
    [] OTHER -> "keep"

\* the message the switch of recognition.onerror shows for a code
ErrorMessage(code) ==
  CASE code = "not-allowed" -> "Microphone permission denied"
    [] code = "audio-capture" -> "No microphone found"
    [] code = "network" -> "Network error"
    [] OTHER -> "keep"

\* the engine fires error (end follows): recognition.onerror
OnError(code) ==
  /\ engine \in {"starting", "active"}
  /\ VRoom(2)
  /\ engine' = "ending"
  /\ IF isMountedRef
     THEN /\ vqueue' = vqueue \o <<SetRecording(FALSE)>>
                         \o (IF ErrorMessage(code) = "keep" THEN <<>>
                             ELSE <<SetError(ErrorMessage(code))>>)
          /\ startAttemptRef' = FALSE
     ELSE UNCHANGED <<vqueue, startAttemptRef>>
  /\ lastCall' = NoCall
  /\ UNCHANGED <<isListening, isMountedRef, recognitionRef, isRecording, error, transcript,
                 veffectDeps, normalizedTargetRef, processedStatementsRef,
                 lastProcessedTimeRef, restartTimers, tryAgainTimers, stoppedByCaller>>
  /\ UNCHANGED gameRest

\* the 100 ms timer recognition.onend set
RestartTimer ==
  /\ restartTimers > 0
  /\ restartTimers' = restartTimers - 1
  /\ IF isListeningAtInit /\ isMountedRef /\ recognitionRef
     THEN /\ lastCall' = StartCall("restart")
          /\ engine' = EngineAfterStart
     ELSE /\ lastCall' = NoCall
          /\ UNCHANGED engine
  /\ UNCHANGED <<isListening, isMountedRef, recognitionRef, startAttemptRef, isRecording, error,
                 transcript, vqueue, veffectDeps, normalizedTargetRef,
                 processedStatementsRef, lastProcessedTimeRef, tryAgainTimers,
                 stoppedByCaller>>
  /\ UNCHANGED gameRest

\* the Try Again button of the error panel, on screen while the committed
\* error is set and the playing VoiceInput is rendered.  React renders a
\* click's update before the browser dispatches another event: the panel is
\* gone at once; the update stays queued behind the earlier ones, which a
\* later render applies before it.
TryAgain ==
  /\ isMountedRef
  /\ gameState.status = "playing"
  /\ error # NoError
  /\ VRoom(1)
  /\ tryAgainTimers < MaxTimers
  /\ VEnqueue(SetError(NoError))
  /\ error' = NoError
  /\ IF isListening /\ recognitionRef
     THEN /\ startAttemptRef' = FALSE
          /\ tryAgainTimers' = tryAgainTimers + 1
     ELSE UNCHANGED <<startAttemptRef, tryAgainTimers>>
  /\ lastCall' = NoCall
  /\ UNCHANGED <<isListening, isMountedRef, recognitionRef, isRecording, transcript,
                 veffectDeps, normalizedTargetRef, processedStatementsRef,
                 lastProcessedTimeRef, restartTimers, engine, stoppedByCaller>>
  /\ UNCHANGED gameRest

\* the 100 ms timer of Try Again; recognitionRef.current.start() on a null
\* ref throws inside the try block and is swallowed
TryAgainTimer ==
  /\ tryAgainTimers > 0
  /\ tryAgainTimers' = tryAgainTimers - 1
  /\ startAttemptRef' = TRUE
  /\ IF recognitionRef
     THEN /\ lastCall' = StartCall("tryAgain")
          /\ engine' = EngineAfterStart
     ELSE /\ lastCall' = NoCall
          /\ UNCHANGED engine
  /\ UNCHANGED <<isListening, isMountedRef, recognitionRef, isRecording, error, transcript, vqueue,
                 veffectDeps, normalizedTargetRef, processedStatementsRef,
                 lastProcessedTimeRef, restartTimers, stoppedByCaller>>
  /\ UNCHANGED gameRest

\* the imperative handle's start()
HandleStart ==
  /\ isMountedRef
  /\ gameState.status = "playing"
  /\ stoppedByCaller' = FALSE
  /\ IF recognitionRef /\ ~isRecording /\ ~startAttemptRef
     THEN /\ lastCall' = StartCall("handle")
          /\ engine' = EngineAfterStart
          /\ startAttemptRef' = ~StartThrows
     ELSE /\ lastCall' = NoCall
          /\ UNCHANGED <<engine, startAttemptRef>>
  /\ UNCHANGED <<isListening, isMountedRef, recognitionRef, isRecording, error, transcript, vqueue,
                 veffectDeps, normalizedTargetRef, processedStatementsRef,
                 lastProcessedTimeRef, restartTimers, tryAgainTimers>>
  /\ UNCHANGED gameRest

\* the imperative handle's stop()
HandleStop ==
  /\ isMountedRef
  /\ gameState.status = "playing"
  /\ VRoom(1)
  /\ IF recognitionRef /\ isRecording
     THEN /\ startAttemptRef' = FALSE
          /\ engine' = EngineAfterStop
          /\ VEnqueue(SetRecording(FALSE))
          /\ stoppedByCaller' = TRUE
     ELSE UNCHANGED <<startAttemptRef, engine, vqueue, stoppedByCaller>>
  /\ lastCall' = NoCall
  /\ UNCHANGED <<isListening, isMountedRef, recognitionRef, isRecording, error, transcript,
                 veffectDeps, normalizedTargetRef, processedStatementsRef,
                 lastProcessedTimeRef, restartTimers, tryAgainTimers>>
  /\ UNCHANGED gameRest

\* React renders the VoiceInput
VoiceRender ==
  /\ isMountedRef
  /\ gameState.status = "playing"
  /\ vqueue # <<>>
  /\ ~EffectsPending
  /\ ~VEffectsPending
  /\ isRecording' = VFold("isRecording", isRecording, vqueue)
  /\ error' = VFold("error", error, vqueue)
  /\ vqueue' = <<>>
  /\ lastCall' = NoCall
  /\ UNCHANGED <<isListening, isMountedRef, recognitionRef, startAttemptRef, transcript, veffectDeps,
                 normalizedTargetRef, processedStatementsRef, lastProcessedTimeRef,
                 restartTimers, tryAgainTimers, engine, stoppedByCaller>>
  /\ UNCHANGED gameRest

\* the body of the start/stop effect in a commit whose isListening is listen
StartStopEffect(listen) ==
  /\ VRoom(1)
  /\ IF recognitionRef /\ listen /\ ~isRecording /\ ~startAttemptRef
     THEN /\ processedStatementsRef' = {}
          /\ lastProcessedTimeRef' = 0
          /\ lastCall' = StartCall("effect")
          /\ engine' = EngineAfterStart
          /\ startAttemptRef' = ~StartThrows
          /\ vqueue' = IF StartThrows THEN Append(vqueue, SetRecording(TRUE)) ELSE vqueue
     ELSE IF recognitionRef /\ ~listen /\ isRecording
     THEN /\ startAttemptRef' = FALSE
          /\ engine' = EngineAfterStop
          /\ vqueue' = Append(vqueue, SetRecording(FALSE))
          /\ lastCall' = NoCall
          /\ UNCHANGED <<processedStatementsRef, lastProcessedTimeRef>>
     ELSE /\ lastCall' = NoCall
          /\ UNCHANGED <<processedStatementsRef, lastProcessedTimeRef, engine,
                         startAttemptRef, vqueue>>
  /\ UNCHANGED <<isMountedRef, recognitionRef, isRecording, error, transcript,
                 normalizedTargetRef, restartTimers, tryAgainTimers, stoppedByCaller>>
  /\ UNCHANGED gameRest

\* the start/stop effect, run after a commit that changed isRecording
VoiceRunEffects ==
  /\ VEffectsPending
  /\ veffectDeps' = isRecording
  /\ StartStopEffect(isListening)
  /\ UNCHANGED isListening

\* the parent renders the mounted VoiceInput with another isListening: the
\* commit changes a dependency of the start/stop effect, which runs
SetListening(listen) ==
  /\ isMountedRef
  /\ gameState.status = "playing"
  /\ listen # isListening
  /\ vqueue = <<>>
  /\ ~EffectsPending
  /\ ~VEffectsPending
  /\ isListening' = listen
  /\ StartStopEffect(listen)
  /\ UNCHANGED veffectDeps

\* ------------------------------------------------------------------------
\* Specifications
\* ------------------------------------------------------------------------
\* the state after GameInterface was constructed
ProgramInit ==
  /\ gameState = [status |-> "idle", score |-> 0, timeLeft |-> GAME_DURATION,
                  currentTwister |-> Null]
  /\ spokenStatements = <<>>
  /\ isLoadingTwister = FALSE
  /\ selectedDifficulty = NoDifficulty
  /\ queue = <<>>
  /\ effectDeps = [status |-> "idle", score |-> 0]
  /\ timerRef = Null
  /\ confettiFiredRef = FALSE
  /\ fetches = <<>>
  /\ now = 0
  /\ confettiCount = 0
  /\ targetReached = FALSE
  /\ isListening = TRUE
  /\ isMountedRef = FALSE
  /\ recognitionRef = FALSE
  /\ startAttemptRef = FALSE
  /\ isRecording = FALSE
  /\ error = NoError
  /\ transcript = <<>>
  /\ vqueue = <<>>
  /\ veffectDeps = FALSE
  /\ normalizedTargetRef = <<>>
  /\ processedStatementsRef = {}
  /\ lastProcessedTimeRef = 0
  /\ restartTimers = 0
  /\ tryAgainTimers = 0
  /\ engine = "idle"
  /\ lastCall = NoCall
  /\ stoppedByCaller = FALSE

Init == ProgramInit /\ evaluation = NoEvaluation

RoundSteps == {30000}
RoundBatches ==
  {<<Fragment(<<"a", " ", "b">>, TRUE)>>,
   <<Fragment(<<"a", " ", "b">>, TRUE), Fragment(<<"a", " ", "b", " ", "c">>, TRUE)>>}
RoundDifficulties == {"Hard"}

\* the round machine, with a recognizer that starts and delivers results
Next ==
  \/ \E d \in RoundDifficulties : HandleDifficultySelect(d)
  \/ StartGame
  \/ RetrySame
  \/ ResetGame
  \/ \E i \in 1..MaxFetches : \E d \in Difficulties : \E r \in RoundResponses(d) :
        FetchComplete(i, r)
  \/ Tick
  \/ Render
  \/ RunEffects
  \/ \E d \in RoundSteps : AdvanceClock(d, MaxNow)
  \/ OnStart
  \/ VoiceRender
  \/ VoiceRunEffects
  \/ \E b \in RoundBatches : EngineResult(b, MaxLog)

Spec == Init /\ [][Next]_vars

\* the round machine with a silent recognizer; the interval callback, the
\* renders and the passive effects are scheduled by the browser and by React
\* whenever they are due
NextTimer ==
  \/ \E d \in RoundDifficulties : HandleDifficultySelect(d)
  \/ StartGame
  \/ RetrySame
  \/ ResetGame
  \/ \E i \in 1..MaxFetches : \E d \in Difficulties : \E r \in RoundResponses(d) :
        FetchComplete(i, r)
  \/ Tick
  \/ Render
  \/ RunEffects
  \/ \E d \in RoundSteps : AdvanceClock(d, MaxNow)

SpecTimer ==
  Init /\ [][NextTimer]_vars /\ WF_vars(Tick) /\ WF_vars(Render) /\ WF_vars(RunEffects)

\* the clock between two events: half a second, or long enough for the
\* interval callback to miss many periods
ClockSteps == {500, 29500}

\* the round machine with a silent recognizer, on a fine clock
NextClock ==
  \/ \E d \in RoundDifficulties : HandleDifficultySelect(d)
  \/ StartGame
  \/ RetrySame
  \/ ResetGame
  \/ \E i \in 1..MaxFetches : \E d \in Difficulties : \E r \in RoundResponses(d) :
        FetchComplete(i, r)
  \/ Tick
  \/ Render
  \/ RunEffects
  \/ \E d \in ClockSteps : AdvanceClock(d, MaxNow)

SpecClock == Init /\ [][NextClock]_vars

\* the round machine with a silent recognizer and every outcome of the
\* phrase generation, for either difficulty
NextFetch ==
  \/ \E d \in Difficulties : HandleDifficultySelect(d)
  \/ StartGame
  \/ RetrySame
  \/ ResetGame
  \/ \E i \in 1..MaxFetches : \E d \in Difficulties : \E r \in Responses(d) :
        FetchComplete(i, r)
  \/ Tick
  \/ Render
  \/ RunEffects
  \/ \E d \in RoundSteps : AdvanceClock(d, MaxNow)

SpecFetch == Init /\ [][NextFetch]_vars

\* a round that has just started on a phrase of the service: START GAME was
\* rendered and the effects of that commit have run, the VoiceInput's included
InitVoice ==
  /\ gameState = [status |-> "playing", score |-> 0, timeLeft |-> GAME_DURATION,
                  currentTwister |-> ServiceTwister("Hard")]
  /\ spokenStatements = <<>>
  /\ isLoadingTwister = FALSE
  /\ selectedDifficulty = "Hard"
  /\ queue = <<>>
  /\ effectDeps = [status |-> "playing", score |-> 0]
  /\ timerRef = [startTime |-> 0, startValue |-> GAME_DURATION]
  /\ confettiFiredRef = FALSE
  /\ fetches = <<>>
  /\ now = 0
  /\ confettiCount = 0
  /\ targetReached = FALSE
  /\ isListening = TRUE
  /\ isMountedRef = TRUE
  /\ recognitionRef = TRUE
  /\ startAttemptRef = TRUE
  /\ isRecording = FALSE
  /\ error = NoError
  /\ transcript = <<>>
  /\ vqueue = <<>>
  /\ veffectDeps = FALSE
  /\ normalizedTargetRef = normalize(ServiceTwister("Hard").text)
  /\ processedStatementsRef = {}
  /\ lastProcessedTimeRef = 0
  /\ restartTimers = 0
  /\ tryAgainTimers = 0
  /\ engine = "starting"
  /\ lastCall = [path |-> "effect", isRecording |-> FALSE, startAttempt |-> FALSE,
                 engine |-> "idle"]
  /\ stoppedByCaller = FALSE
  /\ evaluation = NoEvaluation

VoiceErrors == {"not-allowed", "no-speech"}
VoiceBatches == {<<Fragment(<<"a", " ", "b">>, TRUE)>>}

\* one round, with every event of the recognition session
NextVoice ==
  \/ Tick
  \/ Render
  \/ RunEffects
  \/ AdvanceClock(GAME_DURATION * 1000, MaxNow)
  \/ OnStart
  \/ OnEnd
  \/ \E c \in VoiceErrors : OnError(c)
  \/ RestartTimer
  \/ TryAgain
  \/ TryAgainTimer
  \/ VoiceRender
  \/ VoiceRunEffects
  \/ \E b \in VoiceBatches : EngineResult(b, MaxVoiceLog)

SpecVoice == InitVoice /\ [][NextVoice]_vars

\* one round, with a caller that drives the recognition session through the
\* imperative handle
NextHandle ==
  \/ Tick
  \/ Render
  \/ RunEffects
  \/ AdvanceClock(GAME_DURATION * 1000, MaxNow)
  \/ OnStart
  \/ OnEnd
  \/ \E c \in VoiceErrors : OnError(c)
  \/ RestartTimer
  \/ TryAgain
  \/ TryAgainTimer
  \/ HandleStart
  \/ HandleStop
  \/ VoiceRender
  \/ VoiceRunEffects

SpecHandle == InitVoice /\ [][NextHandle]_vars

\* one round, with a parent that turns the isListening prop of the mounted
\* VoiceInput off and on
NextListen ==
  \/ Tick
  \/ Render
  \/ RunEffects
  \/ AdvanceClock(GAME_DURATION * 1000, MaxNow)
  \/ OnStart
  \/ OnEnd
  \/ \E c \in VoiceErrors : OnError(c)
  \/ RestartTimer
  \/ TryAgain
  \/ TryAgainTimer
  \/ VoiceRender
  \/ VoiceRunEffects
  \/ \E listen \in BOOLEAN : SetListening(listen)

SpecListen == InitVoice /\ [][NextListen]_vars

\* one round, with a recognizer that reports every error code, the codes the
\* switch of onerror names and one it does not
NextErrors ==
  \/ Tick
  \/ Render
  \/ RunEffects
  \/ AdvanceClock(GAME_DURATION * 1000, MaxNow)
  \/ OnStart
  \/ OnEnd
  \/ \E c \in ErrorCodes : OnError(c)
  \/ RestartTimer
  \/ TryAgain
  \/ TryAgainTimer
  \/ VoiceRender
  \/ VoiceRunEffects

SpecErrors == InitVoice /\ [][NextErrors]_vars

\* result events of one to two fragments: final and interim, matching and
\* not, blank, and two spellings of one normalized text
ResultBatches ==
  {<<Fragment(<<"a", " ", "b">>, TRUE)>>,
   <<Fragment(<<" ", "x", " ">>, TRUE)>>,
   <<Fragment(<<"a", " ", "b">>, FALSE)>>,
   <<Fragment(<<"a", " ", "b">>, TRUE), Fragment(<<"A", " ", "b", "!">>, TRUE)>>,
   <<Fragment(<<" ">>, TRUE), Fragment(<<"x">>, TRUE)>>}

\* one round, with a recognizer that starts and delivers results over two
\* buckets of the dedup key
NextResults ==
  \/ Render
  \/ RunEffects
  \/ AdvanceClock(BucketMs, MaxResultsNow)
  \/ OnStart
  \/ VoiceRender
  \/ VoiceRunEffects
  \/ \E b \in ResultBatches : EngineResult(b, MaxLog)

SpecResults == InitVoice /\ [][NextResults]_vars

\* the clock between two result events: less than a bucket
BucketSteps == {1500}
\* result events of one final fragment, two spellings of the target phrase
BucketBatches ==
  {<<Fragment(<<"a", " ", "b">>, TRUE)>>,
   <<Fragment(<<"A", " ", "b", "!">>, TRUE)>>}

\* one round, with a recognizer that delivers the phrase again and again,
\* within a bucket of the dedup key and across its boundary
NextBuckets ==
  \/ Render
  \/ RunEffects
  \/ \E d \in BucketSteps : AdvanceClock(d, MaxResultsNow)
  \/ OnStart
  \/ VoiceRender
  \/ VoiceRunEffects
  \/ \E b \in BucketBatches : EngineResult(b, MaxLog)

SpecBuckets == InitVoice /\ [][NextBuckets]_vars

\* phrases and utterances for the matcher
LorryText ==
  <<"R", "e", "d", " ", "l", "o", "r", "r", "y", ",", " ", "y", "e", "l",
    "l", "o", "w", " ", "l", "o", "r", "r", "y", ".">>
LorryTwister == [text |-> LorryText, difficulty |-> "Easy", theme |-> "Traffic"]
UtterancePrefix ==
  <<"s", "i", "x", " ", "s", "l", "i", "p", "p", "e", "r", "y", " ", "s",
    "n", "a", "i", "l", "s">>
UtteranceLongPrefix ==
  <<"S", "i", "x", " ", "s", "l", "i", "p", "p", "e", "r", "y", " ", "s",
    "n", "a", "i", "l", "s", " ", "s", "l", "i", "d", " ", "s", "l", "o",
    "w", "l", "y">>
UtteranceLorry ==
  <<"a", " ", "r", "e", "d", " ", "l", "o", "r", "r", "y", " ", "a", "n",
    "d", " ", "a", " ", "y", "e", "l", "l", "o", "w", " ", "l", "o", "r",
    "r", "y", " ", "d", "r", "i", "v", "i", "n", "g">>
UtteranceWhole ==
  <<"s", "o", ",", " ", "s", "i", "x", " ", "s", "l", "i", "p", "p", "e",
    "r", "y", " ", "s", "n", "a", "i", "l", "s", " ", "s", "l", "i", "d",
    " ", "s", "l", "o", "w", "l", "y", " ", "s", "e", "a", "w", "a", "r",
    "d">>
UtterancePunctuation ==
  <<"?", "!">>

MatchTwisters == {FallbackTwister, LorryTwister, ServiceTwister("Hard")}
MatchUtterances ==
  {UtterancePrefix, UtteranceLongPrefix, UtteranceLorry, UtteranceWhole,
   UtterancePunctuation}

\* a round on one of the phrases, the recognizer recording
InitMatch ==
  /\ \E t \in MatchTwisters :
        /\ gameState = [status |-> "playing", score |-> 0, timeLeft |-> GAME_DURATION,
                        currentTwister |-> t]
        /\ normalizedTargetRef = normalize(t.text)
  /\ spokenStatements = <<>>
  /\ isLoadingTwister = FALSE
  /\ selectedDifficulty = "Hard"
  /\ queue = <<>>
  /\ effectDeps = [status |-> "playing", score |-> 0]
  /\ timerRef = [startTime |-> 0, startValue |-> GAME_DURATION]
  /\ confettiFiredRef = FALSE
  /\ fetches = <<>>
  /\ now = 0
  /\ confettiCount = 0
  /\ targetReached = FALSE
  /\ isListening = TRUE
  /\ isMountedRef = TRUE
  /\ recognitionRef = TRUE
  /\ startAttemptRef = FALSE
  /\ isRecording = TRUE
  /\ error = NoError
  /\ transcript = <<>>
  /\ vqueue = <<>>
  /\ veffectDeps = TRUE
  /\ processedStatementsRef = {}
  /\ lastProcessedTimeRef = 0
  /\ restartTimers = 0
  /\ tryAgainTimers = 0
  /\ engine = "active"
  /\ lastCall = NoCall
  /\ stoppedByCaller = FALSE
  /\ evaluation = NoEvaluation

\* the recognizer delivers utterances as final results, one per event
NextMatch ==
  \/ Render
  \/ RunEffects
  \/ \E u \in MatchUtterances : EngineResult(<<Fragment(u, TRUE)>>, MaxVoiceLog)

SpecMatch == InitMatch /\ [][NextMatch]_vars

\* the strings the functions on text are applied to
TextChars == {"a", "B", "1", " ", "!", "\t"}
MatchChars == {"a", "B", " ", "!"}
Texts(chars) == UNION {[1..n -> chars] : n \in 0..MaxTextLen}

\* normalize(str), or checkMatch(statement) for a target phrase, to apply
Evaluations ==
  {[fn |-> "normalize", args |-> <<x>>, done |-> FALSE, text |-> <<>>,
    verdict |-> FALSE] : x \in Texts(TextChars)}
  \cup {[fn |-> "checkMatch", args |-> <<u, t>>, done |-> FALSE, text |-> <<>>,
         verdict |-> FALSE] : u \in Texts(MatchChars), t \in Texts(MatchChars)}

InitText == ProgramInit /\ evaluation \in Evaluations

\* normalize(str)
EvalNormalize ==
  /\ evaluation.fn = "normalize"
  /\ ~evaluation.done
  /\ evaluation' = [evaluation EXCEPT !.done = TRUE,
                                      !.text = normalize(evaluation.args[1])]
  /\ UNCHANGED <<gameVars, voiceVars, now>>

\* checkMatch(statement) with normalizedTargetRef.current as the target
\* effect sets it for targetPhrase
EvalCheckMatch ==
  /\ evaluation.fn = "checkMatch"
  /\ ~evaluation.done
  /\ evaluation' = [evaluation EXCEPT
                      !.done = TRUE,
                      !.text = normalize(evaluation.args[2]),
                      !.verdict = checkMatch(evaluation.args[1],
                                             normalize(evaluation.args[2]))]
  /\ UNCHANGED <<gameVars, voiceVars, now>>

NextText == EvalNormalize \/ EvalCheckMatch

SpecText == InitText /\ [][NextText]_vars

\* ------------------------------------------------------------------------
\* Properties
\* ------------------------------------------------------------------------
\* C1: a round whose score was raised to TARGET_SCORE by matches applied
\* while Playing ends in Success, and the win action has fired exactly once
\* in it, however many matches follow
C1_WinFiresExactlyOnce ==
  targetReached /\ gameState.status \in {"success", "failed"}
    => gameState.status = "success" /\ confettiCount = 1

\* the interval of the running round has measured the whole duration
TimeIsUp ==
  /\ gameState.status = "playing"
  /\ timerRef # Null
  /\ now - timerRef.startTime >= GAME_DURATION * 1000

\* C2: in a round without matches, once GAME_DURATION seconds have passed on
\* the running timer, status becomes Failed with timeLeft 0 (unless the round
\* was put back to Idle, which stops the timer); and status Failed always
\* comes with timeLeft 0
C2_TimerEndsRound ==
  /\ [](gameState.status = "failed" => gameState.timeLeft = 0)
  /\ (TimeIsUp ~> (gameState.status = "failed" /\ gameState.timeLeft = 0)
                   \/ gameState.status = "idle")

\* a round failed by its timer at the end of the duration
C2_Witness ==
  /\ gameState.status = "failed"
  /\ gameState.timeLeft = 0
  /\ effectDeps.status = "failed"
  /\ timerRef = Null
  /\ now >= GAME_DURATION * 1000

\* every handleMatch updater of q finds status Playing when React applies it
RECURSIVE MatchesApplyWhilePlaying(_, _)
MatchesApplyWhilePlaying(prev, q) ==
  \/ q = <<>>
  \/ /\ Head(q).op = "handleMatch" => prev.status = "playing"
     /\ MatchesApplyWhilePlaying(ApplyGame(prev, Head(q)), Tail(q))

\* C3: score grows only while status is Playing: every delivered match is
\* applied to a round whose status is Playing, one delivered after the timer
\* or win update was queued included
C3_MatchCountsOnlyWhilePlaying == MatchesApplyWhilePlaying(gameState, queue)

StatusChanges ==
  {<<"idle", "playing">>, <<"playing", "success">>, <<"playing", "failed">>,
   <<"success", "idle">>, <<"failed", "idle">>}

\* C4: every change of status is Idle->Playing, Playing->Success,
\* Playing->Failed, Success->Idle or Failed->Idle
C4_StatusChanges ==
  [][gameState'.status # gameState.status
       => <<gameState.status, gameState'.status>> \in StatusChanges]_vars

\* C5: once a match applied while Playing has raised score to TARGET_SCORE,
\* the round is not Failed, whatever the order of that match, the win check
\* and the timer ticks: no state has status Failed with the target reached
C5_NoFailedAtTarget ==
  ~(gameState.status = "failed" /\ targetReached)

\* the statements of the round: the log, then the onStatementSpoken calls
\* React has still to apply
RoundStatements ==
  spokenStatements
  \o [i \in 1..NewStatements(queue) |->
        SelectSeq(queue, LAMBDA u : u.op = "handleStatementSpoken")[i].statement]

\* C6: while listening for one phrase, a normalized text is reported at most
\* once per 2000 ms bucket
C6_OneEventPerBucket ==
  \A i, j \in 1..Len(RoundStatements) :
    i < j => StatementKey(RoundStatements[i].text, RoundStatements[i].timestamp)
               # StatementKey(RoundStatements[j].text, RoundStatements[j].timestamp)

\* the error shown or about to be shown is a permission or hardware error
HardErrors == {ErrorMessage("not-allowed"), ErrorMessage("audio-capture")}
HardErrorReported ==
  \/ error \in HardErrors
  \/ \E i \in 1..Len(vqueue) : vqueue[i].op = "setError" /\ vqueue[i].value \in HardErrors

\* nothing of the controller is pending: no render, no effect, no timer
ControllerAtRest ==
  /\ vqueue = <<>>
  /\ ~VEffectsPending
  /\ restartTimers = 0
  /\ tryAgainTimers = 0

\* C7: after the engine ended while listening is still desired and no
\* permission or hardware error was reported, a start is on its way: the
\* controller does not come to rest with the engine idle
C7_RestartFollowsEnd ==
  ~(/\ isMountedRef
    /\ gameState.status = "playing"
    /\ ~EffectsPending
    /\ engine = "idle"
    /\ ~HardErrorReported
    /\ error = NoError
    /\ ControllerAtRest)

\* C8: after the handle's stop() took effect, neither the ended handler's
\* timer nor the start/stop effect calls the engine's start until the caller
\* asks to start again
C8_NoStartAfterStop ==
  lastCall.path \in {"effect", "restart"} => ~stoppedByCaller

\* the effects of the commit that left Playing have run: the playing
\* VoiceInput is unmounted
Unmounted == effectDeps.status # "playing"

PendingCalls(q) ==
  Cardinality({i \in 1..Len(q) : q[i].op \in {"handleMatch", "handleStatementSpoken"}})

\* C9: once the playing VoiceInput is unmounted the engine is stopped and no
\* start is called on it; no result and no engine event adds a match or a
\* statement or changes the controller's state (the Try Again timer may still
\* set its own flag)
C9_UnmountEndsSession ==
  [][/\ Unmounted' => engine' \notin {"starting", "active"} /\ lastCall' = NoCall
     /\ Unmounted =>
          /\ UNCHANGED <<isRecording, error, vqueue, veffectDeps, transcript,
                         processedStatementsRef, lastProcessedTimeRef>>
          /\ PendingCalls(queue') <= PendingCalls(queue)
          /\ startAttemptRef' # startAttemptRef => tryAgainTimers' < tryAgainTimers]_vars

\* the round was left with the engine still stopping and a Try Again timer
\* still to fire
C9_Witness ==
  /\ Unmounted
  /\ gameState.status = "failed"
  /\ engine = "stopping"
  /\ tryAgainTimers > 0

\* C10: no path calls the engine's start while the controller is Starting
\* (start called, started not yet received) or Recording
C10_NoStartWhileBusy ==
  lastCall.path # "none"
    => /\ ~(lastCall.isRecording /\ lastCall.engine = "active")
       /\ ~(lastCall.startAttempt /\ lastCall.engine = "starting")

\* the codes that show an error to the user, and the codes that do not
SurfacedCodes == {"not-allowed", "audio-capture", "network"}
SilentCodes == ErrorCodes \ SurfacedCodes

\* what the next render commits of the queued updates
NextError(q) == VFold("error", error, q)
NextRecording(q) == VFold("isRecording", isRecording, q)

\* C11: an error event with code not-allowed, audio-capture or network makes
\* the next render show an error; one with code no-speech, aborted or an
\* unknown code leaves what the next render shows as the error unchanged;
\* every error event leaves startAttemptRef false and isRecording false at
\* the next render
C11_ErrorCodesSurface ==
  [][\A c \in ErrorCodes :
        OnError(c) =>
          /\ c \in SurfacedCodes => NextError(vqueue') # NoError
          /\ c \in SilentCodes => NextError(vqueue') = NextError(vqueue)
          /\ NextRecording(vqueue') = FALSE
          /\ startAttemptRef' = FALSE]_vars

\* a network error was reported while Recording and nothing was shown before
C11_Witness ==
  /\ engine = "ending"
  /\ isRecording
  /\ error = NoError
  /\ NextError(vqueue) = "Network error"
  /\ NextRecording(vqueue) = FALSE
  /\ ~startAttemptRef

\* C12: while the error of a not-allowed or audio-capture event is on screen
\* (Try Again takes it off at once), the controller makes no start() call of
\* its own, neither from the start/stop effect nor from the restart timer
C12_NoStartOnHardError ==
  error \in HardErrors => lastCall.path \notin {"effect", "restart"}

\* the keys of the final fragments of a batch with non-empty trimmed text
\* that the processed set does not hold yet
FreshKeys(batch) ==
  {StatementKey(trim(batch[i].transcript), now) :
     i \in {j \in 1..Len(batch) : batch[j].isFinal /\ trim(batch[j].transcript) # <<>>}}
  \ processedStatementsRef

\* the calls a result step makes to the parent
NewCalls == SubSeq(queue', Len(queue) + 1, Len(queue'))

IsStatement(call) == call.op = "handleStatementSpoken"

\* C13: a result event makes one statementSpoken call per fresh key of its
\* final non-blank fragments and none for any other fragment; each call
\* carries the trimmed text of such a fragment and the matcher's verdict on
\* it; a match call follows a statementSpoken call directly when its verdict
\* is true and is made nowhere else
C13_StatementEvents ==
  [][\A b \in ResultBatches :
        isMountedRef /\ EngineResult(b, MaxLog) =>
          LET calls == NewCalls
              stmts == {i \in 1..Len(calls) : IsStatement(calls[i])}
              key(i) == StatementKey(calls[i].statement.text, now)
          IN /\ Cardinality(stmts) = Cardinality(FreshKeys(b))
             /\ \A i \in stmts :
                   /\ key(i) \in FreshKeys(b)
                   /\ \E j \in 1..Len(b) :
                         b[j].isFinal /\ calls[i].statement.text = trim(b[j].transcript)
                   /\ calls[i].statement.isMatch
                        = checkMatch(calls[i].statement.text, normalizedTargetRef)
                   /\ calls[i].statement.isMatch
                        <=> (i < Len(calls) /\ calls[i + 1].op = "handleMatch")
                   /\ \A j \in stmts : key(i) = key(j) => i = j
             /\ \A i \in 1..Len(calls) :
                   calls[i].op = "handleMatch"
                     => i > 1 /\ IsStatement(calls[i - 1])
                              /\ calls[i - 1].statement.isMatch]_vars

\* a statement that did not match and one that did, with its match call,
\* wait for the render, and the key of the matching one was processed in the
\* bucket before as well
C13_Witness ==
  /\ \E i \in 1..Len(queue) : IsStatement(queue[i]) /\ ~queue[i].statement.isMatch
  /\ \E i \in 1..Len(queue) - 1 :
        /\ IsStatement(queue[i]) /\ queue[i].statement.isMatch
        /\ queue[i + 1].op = "handleMatch"
        /\ StatementKey(queue[i].statement.text, now - BucketMs) \in processedStatementsRef
  /\ now >= BucketMs

\* every statement logged or about to be
AllStatements ==
  {spokenStatements[i] : i \in 1..Len(spokenStatements)}
  \cup {queue[i].statement : i \in {j \in 1..Len(queue) : IsStatement(queue[j])}}

\* s holds t as a contiguous part
Contains(s, t) ==
  \E i \in 1..(Len(s) + 1) :
     /\ i + Len(t) - 1 <= Len(s)
     /\ \A k \in 1..Len(t) : s[i + k - 1] = t[k]

\* the words of s: first and last position of each maximal run without space
WordSpans(s) ==
  {sp \in (1..Len(s)) \X (1..Len(s)) :
     /\ sp[1] <= sp[2]
     /\ \A k \in sp[1]..sp[2] : s[k] # " "
     /\ sp[1] = 1 \/ s[sp[1] - 1] = " "
     /\ sp[2] = Len(s) \/ s[sp[2] + 1] = " "}
WordAt(s, sp) == SubSeq(s, sp[1], sp[2])

\* the target words that contain, or are contained in, some utterance word
OverlapWords(u, t) ==
  {tw \in WordSpans(t) :
     \E uw \in WordSpans(u) : \/ Contains(WordAt(u, uw), WordAt(t, tw))
                              \/ Contains(WordAt(t, tw), WordAt(u, uw))}

\* the three tiers on the normalized utterance u and normalized target t
MatchRule(u, t) ==
  \/ Contains(u, t)
  \/ Contains(t, u) /\ 10 * Len(u) >= 6 * Len(t)
  \/ 10 * Cardinality(OverlapWords(u, t)) >= 6 * Cardinality(WordSpans(t))

SnailsTarget ==
  <<"s", "i", "x", " ", "s", "l", "i", "p", "p", "e", "r", "y", " ", "s",
    "n", "a", "i", "l", "s", " ", "s", "l", "i", "d", " ", "s", "l", "o",
    "w", "l", "y", " ", "s", "e", "a", "w", "a", "r", "d">>
LorryTarget ==
  <<"r", "e", "d", " ", "l", "o", "r", "r", "y", " ", "y", "e", "l", "l",
    "o", "w", " ", "l", "o", "r", "r", "y">>

\* C14: the verdict recorded with a statement is true exactly when the
\* target is non-empty, the utterance is not blank and one of the three
\* tiers holds on the normalized strings; 'six slippery snails' does not
\* match the snails phrase, 'a red lorry and a yellow lorry driving' matches
\* the lorry phrase
C14_MatchRule ==
  \A st \in AllStatements :
     /\ st.isMatch <=> /\ normalizedTargetRef # <<>>
                       /\ \E i \in 1..Len(st.text) : st.text[i] \notin WhiteSpace
                       /\ MatchRule(normalize(st.text), normalizedTargetRef)
     /\ normalizedTargetRef = SnailsTarget /\ st.text = UtterancePrefix => ~st.isMatch
     /\ normalizedTargetRef = LorryTarget /\ st.text = UtteranceLorry => st.isMatch

\* on the snails phrase, the short prefix was logged as no match and the
\* long prefix as a match
C14_Witness ==
  /\ normalizedTargetRef = SnailsTarget
  /\ \E st \in AllStatements : st.text = UtterancePrefix /\ ~st.isMatch
  /\ \E st \in AllStatements : st.text = UtteranceLongPrefix /\ st.isMatch

\* checkMatch was applied to utterance args[1] and target phrase args[2]
Matched == evaluation.fn = "checkMatch" /\ evaluation.done
Utterance == evaluation.args[1]
TargetPhrase == evaluation.args[2]

\* C15 as stated: an utterance with the normal form of the target phrase
\* matches, whatever the two are
C15_EqualNormalFormsMatch ==
  Matched /\ normalize(Utterance) = normalize(TargetPhrase) => evaluation.verdict

\* C15: an utterance with the normal form of the target phrase matches,
\* when that normal form is not empty
C15_EqualNonEmptyNormalFormsMatch ==
  Matched /\ normalize(Utterance) = normalize(TargetPhrase)
          /\ normalize(TargetPhrase) # <<>>
    => evaluation.verdict

\* 'B!' was matched against the phrase '!B ' and found to match
C15_Witness ==
  /\ Matched
  /\ Utterance = <<"B", "!">>
  /\ TargetPhrase = <<"!", "B", " ">>
  /\ evaluation.verdict

\* normalize was applied to args[1]
Normalized == evaluation.fn = "normalize" /\ evaluation.done

\* C16: the value of normalize is a fixed point of normalize, holds only
\* lowercase letters, digits and spaces, neither starts nor ends with a
\* space, and is empty for the empty string
C16_NormalizeIdempotent ==
  Normalized =>
    LET r == evaluation.text
    IN /\ normalize(r) = r
       /\ \A i \in 1..Len(r) : r[i] \in SeqRange(LowerCase) \cup Digits \cup {" "}
       /\ r # <<>> => r[1] # " " /\ r[Len(r)] # " "
       /\ evaluation.args[1] = <<>> => r = <<>>

\* ' B!' was normalized to 'b'
C16_Witness ==
  /\ Normalized
  /\ evaluation.args[1] = <<" ", "B", "!">>
  /\ evaluation.text = <<"b">>

\* C17: no match when the normalized target is empty, or when the utterance
\* is empty, blank or has an empty normal form
C17_NoMatchOnEmpty ==
  Matched /\ (normalize(TargetPhrase) = <<>> \/ normalize(Utterance) = <<>>)
    => ~evaluation.verdict

\* '!' was matched against the phrase 'a' and found not to match
C17_Witness ==
  /\ Matched
  /\ Utterance = <<"!">>
  /\ TargetPhrase = <<"a">>
  /\ ~evaluation.verdict

\* the queued entries of the three round-reset actions
ResetOps == {"startGame", "retrySame", "fetchDone"}

\* React commits the queued updates
Commits == queue # <<>> /\ queue' = <<>>

\* C18: in every render, the state right after the update of startGame,
\* of retrySame or of a completed phrase fetch has score 0, timeLeft
\* GAME_DURATION and an empty statement log; status is Playing after
\* startGame and Idle after the other two; startGame and retrySame keep the
\* phrase; and this is the state committed when no other update follows
C18_ResetsAreClean ==
  [][Commits =>
       \A k \in 1..Len(queue) :
          queue[k].op \in ResetOps =>
            LET before == Fold("gameState", gameState, SubSeq(queue, 1, k - 1))
                after == Fold("gameState", gameState, SubSeq(queue, 1, k))
                log == Fold("spokenStatements", spokenStatements, SubSeq(queue, 1, k))
            IN /\ after.score = 0
               /\ after.timeLeft = GAME_DURATION
               /\ log = <<>>
               /\ after.status = IF queue[k].op = "startGame" THEN "playing" ELSE "idle"
               /\ queue[k].op \in {"startGame", "retrySame"}
                    => after.currentTwister = before.currentTwister
               /\ k = Len(queue) => gameState' = after /\ spokenStatements' = log]_vars

\* a failed round with points and logged statements was just reset to Idle
\* on the same phrase: the effects of that commit have not run yet
C18_Witness ==
  /\ gameState.status = "idle"
  /\ gameState.score = 0
  /\ gameState.timeLeft = GAME_DURATION
  /\ gameState.currentTwister = ServiceTwister("Hard")
  /\ spokenStatements = <<>>
  /\ effectDeps.status = "failed"
  /\ effectDeps.score > 0
  /\ fetches = <<>>

\* the interval callback has queued its update in this step
Ticks == Len(queue') = Len(queue) + 1 /\ queue'[Len(queue')].op = "tick"

\* C19: the value a tick carries is max(0, GAME_DURATION - whole seconds
\* since the timer of the round started); applied to a Playing round it
\* becomes timeLeft, applied to any other status it changes nothing;
\* timeLeft stays within 0..GAME_DURATION and does not increase from one
\* Playing state to the next
C19_TimeLeftFollowsClock ==
  [][/\ gameState'.timeLeft \in 0..GAME_DURATION
     /\ Ticks =>
          /\ timerRef # Null
          /\ queue'[Len(queue')].newTimeLeft
               = Max0(0, GAME_DURATION - ((now - timerRef.startTime) \div 1000))
     /\ Commits =>
          \A k \in 1..Len(queue) :
             queue[k].op = "tick" =>
               LET before == Fold("gameState", gameState, SubSeq(queue, 1, k - 1))
                   after == Fold("gameState", gameState, SubSeq(queue, 1, k))
               IN IF before.status = "playing"
                  THEN after.timeLeft = queue[k].newTimeLeft
                  ELSE after = before
     /\ gameState.status = "playing" /\ gameState'.status = "playing"
          => gameState'.timeLeft <= gameState.timeLeft]_vars

\* a round that started at 1.5 s shows 30 seconds left at 32 s, after a
\* gap of 29.5 s in which no tick was delivered
C19_Witness ==
  /\ gameState.status = "playing"
  /\ timerRef # Null
  /\ timerRef.startTime = 1500
  /\ now = 32000
  /\ gameState.timeLeft = 30
  /\ queue = <<>>

\* the outcomes of a failed phrase generation
FailureResponses(d) ==
  Responses(d) \ ({[ok |-> TRUE, body |-> ServiceTwister(d)]} \cup MalformedResponses(d))

\* C20: when the phrase generation failed, the phrase fetchNewTwister hands
\* to the round is the fixed fallback with difficulty Medium, whatever
\* difficulty was asked
C20_FailureGivesFixedFallback ==
  [][\A i \in 1..MaxFetches : \A d \in Difficulties : \A r \in FailureResponses(d) :
        FetchComplete(i, r) => queue'[Len(queue')].twister = FallbackTwister]_vars

\* C21: when the phrase generation answered OK with an object that lacks
\* text, difficulty or theme, the phrase fetchNewTwister hands to the round
\* is the fixed fallback
C21_MalformedGivesFallback ==
  [][\A i \in 1..MaxFetches : \A d \in Difficulties : \A r \in MalformedResponses(d) :
        FetchComplete(i, r) => queue'[Len(queue')].twister = FallbackTwister]_vars

\* C22: the target phrase is fixed during a round: whenever status is Playing
\* a phrase is loaded, and no step that leaves status Playing changes the
\* phrase, whatever the order of matches, ticks and fetch completions
C22_PhraseFixedWhilePlaying ==
  [][/\ gameState'.status = "playing" => gameState'.currentTwister # Null
     /\ gameState.status = "playing" /\ gameState'.status = "playing"
          => gameState'.currentTwister = gameState.currentTwister]_vars

\* a round with a point scored in which a fetch issued before START completed
\* with another phrase: its update waits for the next render
C22_Witness ==
  /\ gameState.status = "playing"
  /\ gameState.score > 0
  /\ \E k \in 1..Len(queue) :
        /\ queue[k].op = "fetchDone"
        /\ queue[k].twister # gameState.currentTwister

StartPaths == {"effect", "restart", "tryAgain", "handle"}

C24_RestartReadsListeningAtFire ==
  lastCall.path = "restart" => isListening /\ isMountedRef

\* the last step called the engine's start and the call threw InvalidStateError
StartThrew == lastCall.path \in StartPaths /\ lastCall.engine # "idle"

\* C25: when a call of the engine's start throws InvalidStateError, on any of
\* the start paths, the call sets no error and leaves the controller
\* Recording: with the updates it queued applied, isRecording is true and
\* error is what it was
C25_DoubleStartMeansRecording ==
  StartThrew => /\ VFold("isRecording", isRecording, vqueue)
                /\ VFold("error", error, vqueue) = error

InterimOnly(batch) == \A j \in 1..Len(batch) : ~batch[j].isFinal

\* C26: a result event whose fragments are all interim leaves the round
\* (status, score), the statement log, the dedup set and its timestamp as they
\* were and makes no statementSpoken and no match call
C26_InterimIsDisplayOnly ==
  [][\A b \in ResultBatches :
        InterimOnly(b) /\ isMountedRef /\ EngineResult(b, MaxLog) =>
          /\ queue' = queue
          /\ UNCHANGED <<gameState, spokenStatements, processedStatementsRef,
                         lastProcessedTimeRef>>]_vars

\* the text on display came from an interim fragment: no key of the dedup set
\* holds it, while an earlier final statement is recorded and logged
C26_Witness ==
  /\ transcript = <<"a", " ", "b">>
  /\ processedStatementsRef # {}
  /\ \A k \in processedStatementsRef : k[1] # <<"a", " ", "b">>
  /\ Len(spokenStatements) = 1
  /\ gameState.status = "playing"
  /\ gameState.score = 0

\* C27: dedup goes by fixed buckets of 2000 ms: a final fragment whose
\* normalized text was processed less than 2000 ms ago, but in another
\* bucket (another floor(now / 2000)), is processed again: the result event
\* makes the statementSpoken call and, the text matching, the match call
C27_BucketBoundaryCountsTwice ==
  [][\A b \in BucketBatches :
        /\ isMountedRef
        /\ EngineResult(b, MaxLog)
        /\ \E k \in processedStatementsRef : k[1] = normalize(b[1].transcript)
        /\ now - lastProcessedTimeRef < BucketMs
        /\ now \div BucketMs # lastProcessedTimeRef \div BucketMs
        => /\ Len(NewCalls) = 2
           /\ IsStatement(NewCalls[1])
           /\ NewCalls[1].statement.timestamp = now
           /\ NewCalls[1].statement.isMatch
           /\ NewCalls[2].op = "handleMatch"]_vars

\* two statements of the same normalized text, less than 2000 ms apart, are
\* both in the log as matches and both raised the score
C27_Witness ==
  /\ gameState.score = 2
  /\ Len(spokenStatements) = 2
  /\ \A i \in 1..2 : spokenStatements[i].isMatch
  /\ normalize(spokenStatements[1].text) = normalize(spokenStatements[2].text)
  /\ spokenStatements[2].timestamp - spokenStatements[1].timestamp < BucketMs
  /\ spokenStatements[2].timestamp - spokenStatements[1].timestamp > 0

\* the entries of the statement log that are matches
MatchEntries == {i \in 1..Len(spokenStatements) : spokenStatements[i].isMatch}

\* C28: score is the number of entries of the statement log whose isMatch is
\* true
C28_ScoreCountsMatches == gameState.score = Cardinality(MatchEntries)

\* a round with two matches scored and logged after the clock has advanced
C28_Witness ==
  /\ gameState.status = "playing"
  /\ gameState.score = 2
  /\ Cardinality(MatchEntries) = 2
  /\ \A i \in MatchEntries : spokenStatements[i].timestamp > 0

\* C29: score stays within 0..TARGET_SCORE
C29_ScoreWithinTarget ==
  gameState.score >= 0 /\ gameState.score <= TARGET_SCORE

\* C30: while a phrase fetch is in flight the loading flag is true (with the
\* queued updates applied) and no round is started
C30_NoStartWhileFetching ==
  [][/\ fetches' # <<>> => Fold("isLoadingTwister", isLoadingTwister', queue')
     /\ StartGame => fetches = <<>>]_vars

====
